---- MODULE Spec2Model ----
(***************************************************************************)
(* Model of rename_mp3s_main.py: the tag-to-path naming of process_mp3,    *)
(* and the scan / collision analysis / move loop of process_mp3s, run on a *)
(* small file system.                                                      *)
(*                                                                         *)
(* A Python str is a sequence of one-character strings, so that            *)
(* normalisation, splitting, integer parsing and formatting are computed   *)
(* character by character as the code computes them.                       *)
(***************************************************************************)
EXTENDS Naturals, Integers, Sequences, FiniteSets, TLC

(***************************************************************************)
(* Characters and strings                                                  *)
(***************************************************************************)

\* Printable ASCII in code-point order (32..126): Python compares str values
\* code point by code point, which is what sort_values uses on the object column.
\* (Code point 96 cannot be written in a TLA+ string; its place is kept.)
Ascii ==
  << " ", "!", "\"", "#", "$", "%", "&", "'", "(", ")", "*", "+", ",", "-", ".", "/",
     "0", "1", "2", "3", "4", "5", "6", "7", "8", "9", ":", ";", "<", "=", ">", "?",
     "@", "A", "B", "C", "D", "E", "F", "G", "H", "I", "J", "K", "L", "M", "N", "O",
     "P", "Q", "R", "S", "T", "U", "V", "W", "X", "Y", "Z", "[", "\\", "]", "^", "_",
     "(backtick)", "a", "b", "c", "d", "e", "f", "g", "h", "i", "j", "k", "l", "m", "n", "o",
     "p", "q", "r", "s", "t", "u", "v", "w", "x", "y", "z", "{", "|", "}", "~" >>

Chars == {Ascii[i] : i \in 1..Len(Ascii)}

Ord == [c \in Chars |-> 31 + (CHOOSE i \in 1..Len(Ascii) : Ascii[i] = c)]

\* s < t in Python's str ordering.
RECURSIVE StrLess(_, _)
StrLess(s, t) ==
  IF t = <<>> THEN FALSE
  ELSE IF s = <<>> THEN TRUE
  ELSE IF s[1] # t[1] THEN Ord[s[1]] < Ord[t[1]]
  ELSE StrLess(Tail(s), Tail(t))

Contains(s, c) == \E i \in 1..Len(s) : s[i] = c

EndsWith(s, suffix) ==
  /\ Len(s) >= Len(suffix)
  /\ SubSeq(s, Len(s) - Len(suffix) + 1, Len(s)) = suffix

\* str.lower(), on ASCII.
Lower(s) ==
  [i \in 1..Len(s) |->
     IF Ord[s[i]] >= 65 /\ Ord[s[i]] <= 90 THEN Ascii[Ord[s[i]] + 32 - 31] ELSE s[i]]

\* str.split(sep) for a one-character separator: always at least one piece.
RECURSIVE Split(_, _)
Split(s, sep) ==
  IF ~Contains(s, sep) THEN <<s>>
  ELSE LET i == CHOOSE j \in 1..Len(s) :
                  s[j] = sep /\ \A k \in 1..(j - 1) : s[k] # sep
       IN <<SubSeq(s, 1, i - 1)>> \o Split(SubSeq(s, i + 1, Len(s)), sep)

Digits == {"0", "1", "2", "3", "4", "5", "6", "7", "8", "9"}

DigitValue(c) == Ord[c] - 48

RECURSIVE Strip(_)
Strip(s) ==
  IF s = <<>> THEN s
  ELSE IF s[1] = " " THEN Strip(Tail(s))
  ELSE IF s[Len(s)] = " " THEN Strip(SubSeq(s, 1, Len(s) - 1))
  ELSE s

Unsigned(s) == IF s # <<>> /\ s[1] \in {"+", "-"} THEN Tail(s) ELSE s

\* Whether int(s) parses: surrounding blanks, an optional sign, then digits
\* with single underscores allowed between digits.
IsIntLiteral(s) ==
  LET b == Unsigned(Strip(s)) IN
    /\ b # <<>>
    /\ b[1] \in Digits
    /\ b[Len(b)] \in Digits
    /\ \A i \in 1..Len(b) : b[i] \in Digits \cup {"_"}
    /\ \A i \in 1..(Len(b) - 1) : ~(b[i] = "_" /\ b[i + 1] = "_")

RECURSIVE DigitsValue(_, _)
DigitsValue(b, acc) ==
  IF b = <<>> THEN acc
  ELSE IF b[1] = "_" THEN DigitsValue(Tail(b), acc)
  ELSE DigitsValue(Tail(b), 10 * acc + DigitValue(b[1]))

\* int(s), for s with IsIntLiteral(s).
IntValue(s) ==
  LET t == Strip(s)
      v == DigitsValue(Unsigned(t), 0)
  IN IF t[1] = "-" THEN 0 - v ELSE v

RECURSIVE NatToStr(_)
NatToStr(n) ==
  IF n < 10 THEN <<Ascii[n + 48 - 31]>>
  ELSE NatToStr(n \div 10) \o <<Ascii[(n % 10) + 48 - 31]>>

\* f'{n:02}': the sign, then zeros up to a total width of 2.
Format02(n) ==
  IF n < 0
    THEN <<"-">> \o NatToStr(0 - n)
    ELSE IF n < 10 THEN <<"0">> \o NatToStr(n) ELSE NatToStr(n)

(***************************************************************************)
(* Module constants                                                        *)
(***************************************************************************)

\* re.compile(r'([12][0-9][0-9][0-9])-[0-1][0-9]-[0-3][0-9]'), used with
\* .match: anchored at the start, anything may follow.
DATE_TO_YEAR(s) ==
  /\ Len(s) >= 10
  /\ s[1] \in {"1", "2"}
  /\ s[2] \in Digits /\ s[3] \in Digits /\ s[4] \in Digits
  /\ s[5] = "-"
  /\ s[6] \in {"0", "1"} /\ s[7] \in Digits
  /\ s[8] = "-"
  /\ s[9] \in {"0", "1", "2", "3"} /\ s[10] \in Digits

PUNCTUATION ==
  {":", "!", "@", "#", "$", "%", "^", "&", "*", "/", "\\", "?", "<", ">", "\""}

MAX_NAME_LENGTH == 60

\* None and '' take the same branch everywhere the code tests a tag value
\* (`if not name`, `if not artistsort`, `if not year`, `if track`,
\* `if albumartist`), so both are the empty sequence.
None == <<>>

UNKNOWN == <<"U", "N", "K", "N", "O", "W", "N", "_">>
UNKNOWN_GENRE == UNKNOWN \o <<"G", "E", "N", "R", "E">>
UNKNOWN_ARTIST == UNKNOWN \o <<"A", "R", "T", "I", "S", "T">>
UNKNOWN_ARTISTSORT == UNKNOWN_ARTIST \o <<"S", "O", "R", "T">>
UNKNOWN_YEAR == UNKNOWN \o <<"Y", "E", "A", "R">>
UNKNOWN_ALBUM == UNKNOWN \o <<"A", "L", "B", "U", "M">>
UNKNOWN_TRACK == UNKNOWN \o <<"T", "R", "A", "C", "K">>
UNKNOWN_TITLE == UNKNOWN \o <<"T", "I", "T", "L", "E">>

normalize_name(name, missing_value) ==
  IF name = None THEN missing_value
  ELSE LET subbed == [i \in 1..Len(name) |->
                        IF name[i] \in PUNCTUATION THEN "_" ELSE name[i]]
       IN IF Len(subbed) > MAX_NAME_LENGTH
            THEN SubSeq(subbed, 1, MAX_NAME_LENGTH)
            ELSE subbed

(***************************************************************************)
(* Paths                                                                   *)
(***************************************************************************)

\* posixpath.join(a, b).
Join(a, b) ==
  IF b # <<>> /\ b[1] = "/" THEN b
  ELSE IF a = <<>> \/ a[Len(a)] = "/" THEN a \o b
  ELSE a \o <<"/">> \o b

RECURSIVE RStripSlash(_)
RStripSlash(s) ==
  IF s # <<>> /\ s[Len(s)] = "/" THEN RStripSlash(SubSeq(s, 1, Len(s) - 1)) ELSE s

\* posixpath.dirname(p).
Dirname(p) ==
  LET cut == IF Contains(p, "/")
               THEN CHOOSE i \in 1..Len(p) :
                      p[i] = "/" /\ \A k \in (i + 1)..Len(p) : p[k] # "/"
               ELSE 0
      head == SubSeq(p, 1, cut)
  IN IF head # <<>> /\ RStripSlash(head) # <<>> THEN RStripSlash(head) ELSE head

\* The file-system object an absolute path string names: its components,
\* without the empty ones and the "." ones (which name the directory they
\* stand in).  Two different strings can name the same object.
Canon(p) == SelectSeq(Split(p, "/"), LAMBDA c : c # <<>> /\ c # <<".">>)

Prefixes(c) == {SubSeq(c, 1, k) : k \in 0..Len(c)}

ProperPrefixes(c) == {SubSeq(c, 1, k) : k \in 0..(Len(c) - 1)}

(***************************************************************************)
(* process_mp3: tags to target path                                        *)
(***************************************************************************)

\* The flags input_mp3_dir and output_mp3_base_dir ("Can be the same").
INPUT_MP3_DIR == <<"/", "m">>

OUTPUT_MP3_BASE_DIR == <<"/", "m">>

TagNames ==
  {"genre", "artistsort", "artist", "albumartist", "date", "year", "album",
   "tracknumber", "title"}

\* f.get(key, [default])[0]
Get(f, key, default) == IF f[key] = None THEN default ELSE f[key]

Year(f) ==
  LET date == Get(f, "date", <<>>)
      year == IF DATE_TO_YEAR(date) THEN SubSeq(date, 1, 4) ELSE date
  IN IF year = <<>> THEN Get(f, "year", UNKNOWN_YEAR) ELSE year

\* The exception lines 66-71 raise on the tracknumber tag, or "none".
TrackRaises(f) ==
  LET track == f["tracknumber"]
      track_split == Split(track, "/")
  IN IF track = None THEN "none"
     ELSE IF ~IsIntLiteral(track_split[1]) THEN "ValueError"
     ELSE IF Len(track_split) < 2 THEN "IndexError"
     ELSE "none"

\* track_string after lines 65-71, when they raise nothing.
TrackString(f) ==
  LET track == f["tracknumber"]
  IN IF track = None THEN UNKNOWN_TRACK
     ELSE Format02(IntValue(Split(track, "/")[1]))

Dash == <<" ", "-", " ">>

Slash == <<"/">>

Mp3 == <<"m", "p", "3">>

\* Line 86: the template of a file with an albumartist.
AlbumArtistTemplate(genre, albumartist, artistsort, artist, year, album, track_string, title) ==
  genre \o Slash \o albumartist \o Slash \o year \o Dash \o album \o Slash
    \o album \o Dash \o year \o Dash \o track_string \o Dash \o artist \o Dash
    \o title \o <<".">> \o Mp3

\* Mutant: the file name of line 88 in the order of line 86.
ArtistTemplate_album_first(genre, albumartist, artistsort, artist, year, album, track_string, title) ==
  genre \o Slash \o artistsort \o Slash \o year \o Dash \o album \o Slash
    \o album \o Dash \o year \o Dash \o track_string \o Dash \o artist \o Dash
    \o title \o <<".">> \o Mp3

\* Line 88: the template of a file without one.
ArtistTemplate(genre, albumartist, artistsort, artist, year, album, track_string, title) ==
  genre \o Slash \o artistsort \o Slash \o year \o Dash \o album \o Slash
    \o artist \o Dash \o year \o Dash \o album \o Dash \o track_string \o Dash
    \o title \o <<".">> \o Mp3

\* Lines 48-64 and 74-88: new_name, given the track_string of lines 65-71.
NameWith(f, track_string0) ==
  LET artist0 == f["artist"]
      artistsort0 == IF f["artistsort"] = None THEN artist0 ELSE f["artistsort"]
      genre == normalize_name(Get(f, "genre", UNKNOWN_GENRE), UNKNOWN_GENRE)
      artist == normalize_name(artist0, UNKNOWN_ARTIST)
      artistsort == normalize_name(artistsort0, UNKNOWN_ARTISTSORT)
      albumartist == normalize_name(f["albumartist"], None)
      year == normalize_name(Year(f), UNKNOWN_YEAR)
      album == normalize_name(Get(f, "album", UNKNOWN_ALBUM), UNKNOWN_ALBUM)
      track_string == normalize_name(track_string0, UNKNOWN_TRACK)
      title == normalize_name(Get(f, "title", UNKNOWN_TITLE), UNKNOWN_TITLE)
  IN IF albumartist # None
       THEN AlbumArtistTemplate(genre, albumartist, artistsort, artist, year, album,
                                track_string, title)
       ELSE ArtistTemplate(genre, albumartist, artistsort, artist, year, album,
                           track_string, title)

\* new_name, for tags on which lines 66-71 raise nothing.
new_name(f) == NameWith(f, TrackString(f))

(***************************************************************************)
(* The file system: the regular files (where each is, and which file it    *)
(* is: the path it had at the start) and the directories.                  *)
(***************************************************************************)

FilePlaces(files) == {x.at : x \in files}

\* os.path.exists(p)
Exists(p, files, dirs) == Canon(p) \in FilePlaces(files) \cup dirs

\* os.makedirs(p, exist_ok=True): the exception it raises, or "none".  A
\* regular file at p or above p stops it before it creates anything.
MakedirsRaises(p, files) ==
  IF Canon(p) \in FilePlaces(files) THEN "FileExistsError"
  ELSE IF ProperPrefixes(Canon(p)) \cap FilePlaces(files) # {} THEN "NotADirectoryError"
  ELSE "none"

Makedirs(p, dirs) == dirs \cup Prefixes(Canon(p))

\* os.rename(src, dst): the exception it raises, or "none".
RenameRaises(src, dst, files, dirs) ==
  IF Canon(src) \notin FilePlaces(files) THEN "FileNotFoundError"
  ELSE IF Canon(dst) \in dirs THEN "IsADirectoryError"
  ELSE IF SubSeq(Canon(dst), 1, Len(Canon(dst)) - 1) \notin dirs THEN "FileNotFoundError"
  ELSE "none"

\* os.rename(src, dst) on POSIX: a regular file at dst is replaced silently.
Rename(src, dst, files) ==
  IF Canon(src) = Canon(dst) THEN files
  ELSE LET moved == CHOOSE x \in files : x.at = Canon(src)
       IN {x \in files : x.at \notin {Canon(src), Canon(dst)}}
            \cup {[at |-> Canon(dst), id |-> moved.id]}

(***************************************************************************)
(* process_mp3                                                             *)
(***************************************************************************)

\* Lines 92-98.
Collision(name_changed, new_filename, files, dirs) ==
  IF name_changed /\ Exists(new_filename, files, dirs) THEN "PREEXISTING FILE" ELSE "None"

\* process_mp3(root, item, dest_dir_base, records) on the file `file` that
\* os.walk found at root/item.  What it does to records and the log:
\*   "record"  a record is appended;
\*   "logged"  an exception after line 44 is caught and logged, no record;
\*   "raised"  EasyID3(filename) raised, and the handler's own use of f, never
\*             bound, raises UnboundLocalError out of process_mp3.
process_mp3(root, item, dest_dir_base, file, files, dirs) ==
  LET filename == Join(root, item)
      f == file.f
      new_filename == Join(dest_dir_base, new_name(f))
      name_changed == new_filename # filename
  IN IF ~file.readable
       THEN [outcome |-> "raised", exception |-> "UnboundLocalError"]
     ELSE IF TrackRaises(f) # "none"
       THEN [outcome |-> "logged", exception |-> TrackRaises(f),
             entry |-> [kind |-> "Failure processing file", text |-> <<filename>>]]
     ELSE [outcome |-> "record",
           record |-> [original_filename |-> filename,
                       new_filename |-> new_filename,
                       name_changed |-> name_changed,
                       collision |-> Collision(name_changed, new_filename, files, dirs),
                       f |-> f]]

(***************************************************************************)
(* process_mp3s: the data-frame steps                                      *)
(***************************************************************************)

\* The rows of `sorted` (ascending by new_filename) with r put after every
\* row that is not greater than it.
InsertRow(sorted, r) ==
  LET n == Cardinality({j \in 1..Len(sorted) :
                          ~StrLess(r.new_filename, sorted[j].new_filename)})
  IN SubSeq(sorted, 1, n) \o <<r>> \o SubSeq(sorted, n + 1, Len(sorted))

\* Mutant: the frame is left in the order of the walk.
sort_values_skipped(rows) == rows

\* df.sort_values('new_filename').  numpy's default sort is an insertion sort
\* on fewer than 17 rows, so rows with equal new_filename keep the order in
\* which the walk found them.
RECURSIVE sort_values(_)
sort_values(rows) ==
  IF rows = <<>> THEN <<>>
  ELSE InsertRow(sort_values(SubSeq(rows, 1, Len(rows) - 1)), rows[Len(rows)])

\* Mutant: the collision column is never looked at.
preexisting_collisions_none(df) == <<>>

\* df.new_filename[~pd.isna(df.collision)]
preexisting_collisions(df) == SelectSeq(df, LAMBDA r : r.collision # "None")

\* Mutant: only a new_filename that three rows share counts.
collisions_over_two(df) ==
  {r.new_filename : r \in
     {df[j] : j \in {j \in 1..Len(df) :
                       Cardinality({m \in 1..Len(df) :
                                      df[m].new_filename = df[j].new_filename}) > 2}}}

\* new_filename_counts[new_filename_counts > 1], as the set of its index.
collisions(df) ==
  {r.new_filename : r \in
     {df[j] : j \in {j \in 1..Len(df) :
                       Cardinality({m \in 1..Len(df) :
                                      df[m].new_filename = df[j].new_filename}) > 1}}}

\* df[df.new_filename.isin(collisions.index)]
collisions_df(df) == SelectSeq(df, LAMBDA r : r.new_filename \in collisions(df))

\* Mutant: the filter on name_changed is left out.
changed_unfiltered(df) == df

\* df[df.name_changed]
changed(df) == SelectSeq(df, LAMBDA r : r.name_changed)

RECURSIVE DoubleQuotes(_)
DoubleQuotes(s) ==
  IF s = <<>> THEN <<>>
  ELSE IF s[1] = "\"" THEN <<"\"", "\"">> \o DoubleQuotes(Tail(s))
  ELSE <<s[1]>> \o DoubleQuotes(Tail(s))

\* One row of to_csv(index=False, header=False, sep='\t'): a field holding the
\* quote character is quoted, its quotes doubled.
CsvRow(s) ==
  IF Contains(s, "\"") THEN <<"\"">> \o DoubleQuotes(s) \o <<"\"">> ELSE s

\* 'mv "%s" "%s"' % (row.original_filename, row.new_filename)
MvLine(row) ==
  <<"m", "v", " ", "\"">> \o row.original_filename \o <<"\"", " ", "\"">>
    \o row.new_filename \o <<"\"">>

\* preexisting_collisions.values
values(rows) == [j \in 1..Len(rows) |-> rows[j].new_filename]

\* collisions_df[['original_filename']].to_csv(index=False, header=False, sep='\t')
to_csv(rows) == [j \in 1..Len(rows) |-> CsvRow(rows[j].original_filename)]

(***************************************************************************)
(* The files on disk                                                       *)
(***************************************************************************)

MaxFiles == 4

NoTags == [t \in TagNames |-> None]

\* genre g, artist a, album b, year 7, track 1 of 2, title t:
\* /m/g/a/7 - b/a - 7 - b - 01 - t.mp3
Base ==
  [NoTags EXCEPT !["genre"] = <<"g">>, !["artist"] = <<"a">>, !["album"] = <<"b">>,
                 !["year"] = <<"7">>, !["tracknumber"] = <<"1", "/", "2">>,
                 !["title"] = <<"t">>]

\* A descriptor of one regular file: the directory os.walk yields it in, its
\* name, the tags EasyID3 reads from it, and whether EasyID3 can open it.
File(root, item, f, readable) ==
  [root |-> root, item |-> item, f |-> f, readable |-> readable]

PathOf(file) == Join(file.root, file.item)

BaseTarget == Join(OUTPUT_MP3_BASE_DIR, new_name(Base))

Basename(p) == LET parts == Split(p, "/") IN parts[Len(parts)]

XMp3 == <<"x", ".", "m", "p", "3">>

YMp3 == <<"y", ".", "M", "P", "3">>

QuoteMp3 == <<"q", "\"", ".", "m", "p", "3">>

ZMp3 == <<"z", ".", "m", "p", "3">>

Candidates ==
  \* at /m/x.mp3
  { File(INPUT_MP3_DIR, XMp3, f, TRUE) : f \in
      { Base,
        [Base EXCEPT !["albumartist"] = <<"c">>],
        [Base EXCEPT !["genre"] = <<".">>, !["artistsort"] = <<"g">>],
        [Base EXCEPT !["tracknumber"] = <<"1">>],
        [Base EXCEPT !["tracknumber"] = <<"x", "/", "2">>],
        [Base EXCEPT !["tracknumber"] = None] } }
  \cup {File(INPUT_MP3_DIR, XMp3, NoTags, FALSE)}
  \* at /m/y.MP3
  \cup { File(INPUT_MP3_DIR, YMp3, f, TRUE) : f \in
      { Base,
        [Base EXCEPT !["title"] = <<"u">>],
        [Base EXCEPT !["artistsort"] = <<".">>] } }
  \cup {File(INPUT_MP3_DIR, YMp3, NoTags, FALSE)}
  \* a file name with a double quote in it
  \cup {File(INPUT_MP3_DIR, QuoteMp3, [Base EXCEPT !["title"] = <<"v">>], TRUE)}
  \* at /m/z.mp3
  \cup {File(INPUT_MP3_DIR, ZMp3, [Base EXCEPT !["title"] = <<"v">>], TRUE)}
  \* /m/g, a regular file that is no mp3
  \cup {File(INPUT_MP3_DIR, <<"g">>, NoTags, FALSE)}
  \* files that are where Base's target is
  \cup {File(Dirname(BaseTarget), Basename(BaseTarget), Base, TRUE),
        File(Dirname(BaseTarget), Basename(BaseTarget), [Base EXCEPT !["title"] = <<"w">>], TRUE),
        File(Dirname(BaseTarget), Basename(BaseTarget), NoTags, FALSE)}

\* The orders os.walk(top-down) can yield a set of files in: a directory's
\* files together, in any order, and before those of the directories below it.
\* No two files at one place, and no file where another needs a directory.
WalkOK(w) ==
  /\ \A a, b \in 1..Len(w) :
       a # b => /\ Canon(PathOf(w[a])) # Canon(PathOf(w[b]))
                /\ Canon(PathOf(w[a])) \notin ProperPrefixes(Canon(PathOf(w[b])))
  /\ \A a, b \in 1..Len(w) :
       a < b => Canon(w[b].root) \notin ProperPrefixes(Canon(w[a].root))
  /\ \A a, b, c \in 1..Len(w) :
       (a < b /\ b < c /\ w[a].root = w[c].root) => w[b].root = w[a].root

\* WalkOK holds of every prefix of a walk it holds of.
RECURSIVE WalksOfLen(_, _)
WalksOfLen(cands, n) ==
  IF n = 0 THEN {<<>>}
  ELSE {w \in {Append(v, c) : v \in WalksOfLen(cands, n - 1), c \in cands} : WalkOK(w)}

WalksOver(cands) == UNION {WalksOfLen(cands, n) : n \in 1..MaxFiles}

InitFiles(w) ==
  {[at |-> Canon(PathOf(w[j])), id |-> PathOf(w[j])] : j \in 1..Len(w)}

InitDirs(w) ==
  UNION {ProperPrefixes(Canon(PathOf(w[j]))) : j \in 1..Len(w)}
    \cup Prefixes(Canon(INPUT_MP3_DIR)) \cup Prefixes(Canon(OUTPUT_MP3_BASE_DIR))

(***************************************************************************)
(* State                                                                   *)
(***************************************************************************)

VARIABLES
  walk,      \* the files on disk at the start, in the order os.walk yields them
  files,     \* the regular files now on disk
  dirs,      \* the directories now on disk
  dry_run,   \* FLAGS.dry_run of the invocation under way
  pc,        \* "scan", "plan", "move", "done" (returned) or "raised"
  raised,    \* the exception that ended the invocation, or "none"
  i,         \* index in walk of the next file of the scan
  records,   \* the list records
  df,        \* the data frame
  k,         \* index in df of the next row of the move loop
  output,    \* what the invocation has logged and printed, in order
  asserted,  \* the paths line 133 has tested, in order
  renamed,   \* the <<src, dst>> pairs passed to os.rename, in order
  prior      \* the invocations that have ended

vars ==
  <<walk, files, dirs, dry_run, pc, raised, i, records, df, k, output, asserted,
    renamed, prior>>

\* Pairs of files whose tags differ in albumartist alone: /m/x.mp3 has one,
\* /m/y.MP3 has none.
NameTags ==
  { [NoTags EXCEPT !["genre"] = <<"g">>, !["title"] = <<"t">>, !["artist"] = artist,
                   !["album"] = album, !["artistsort"] = artistsort,
                   !["tracknumber"] = tracknumber, !["date"] = date] :
      artist \in {None, <<"a">>, <<"0", "1">>},
      album \in {<<"a">>, <<"0", "1">>},
      artistsort \in {None, <<"0", "1">>},
      tracknumber \in {None, <<"1", "/", "2">>},
      date \in {None, <<"1", "9", "8", "0", "-", "0", "7", "-", "2", "5">>} }

AlbumArtists == {<<"a">>, <<"0", "1">>, <<"/">>}

NameWalks ==
  { << File(INPUT_MP3_DIR, XMp3, [f EXCEPT !["albumartist"] = albumartist], TRUE),
       File(INPUT_MP3_DIR, YMp3, f, TRUE) >> :
      f \in NameTags, albumartist \in AlbumArtists }

\* The first invocation leaves --dry_run at its default (line 26).
InitOver(walks) ==
  /\ walk \in walks
  /\ files = InitFiles(walk)
  /\ dirs = InitDirs(walk)
  /\ dry_run = TRUE
  /\ pc = "scan"
  /\ raised = "none"
  /\ i = 1
  /\ records = <<>>
  /\ df = <<>>
  /\ k = 1
  /\ output = <<>>
  /\ asserted = <<>>
  /\ renamed = <<>>
  /\ prior = <<>>

Init == InitOver(WalksOver(Candidates))

NameInit == InitOver(NameWalks)

(***************************************************************************)
(* Actions                                                                 *)
(***************************************************************************)

\* Lines 109-111 for the next file of the walk.
ScanStep ==
  /\ pc = "scan"
  /\ LET file == walk[i]
         r == IF EndsWith(Lower(file.item), Mp3)
                THEN process_mp3(file.root, file.item, OUTPUT_MP3_BASE_DIR, file,
                                 files, dirs)
                ELSE [outcome |-> "no mp3"]
     IN /\ records' = IF r.outcome = "record" THEN Append(records, r.record) ELSE records
        /\ output' = IF r.outcome = "logged" THEN Append(output, r.entry) ELSE output
        /\ raised' = IF r.outcome = "raised" THEN r.exception ELSE raised
        /\ pc' = IF r.outcome = "raised" THEN "raised"
                 ELSE IF i = Len(walk) THEN "plan" ELSE "scan"
  /\ i' = i + 1
  /\ UNCHANGED <<walk, files, dirs, dry_run, df, k, asserted, renamed, prior>>

\* Lines 112-128: the data frame, the two collision checks, the filter.  An
\* empty records list gives a frame without columns, and sort_values raises.
Plan ==
  /\ pc = "plan"
  /\ LET sorted == sort_values(records)
         pre == preexisting_collisions(sorted)
     IN IF records = <<>>
          THEN /\ raised' = "KeyError"
               /\ pc' = "raised"
               /\ UNCHANGED <<df, output>>
        ELSE IF Len(pre) > 0
          THEN /\ output' = Append(output,
                              [kind |-> "Pre-existing collisions, stopping",
                               text |-> values(pre)])
               /\ df' = sorted
               /\ pc' = "done"
               /\ UNCHANGED raised
        ELSE IF collisions(sorted) # {}
          THEN /\ output' = output \o
                              << [kind |-> "Would-be new collisions, stopping.",
                                  text |-> <<>>],
                                 [kind |-> "print",
                                  text |-> to_csv(collisions_df(sorted))] >>
               /\ df' = sorted
               /\ pc' = "done"
               /\ UNCHANGED raised
        ELSE /\ df' = changed(sorted)
             /\ pc' = IF changed(sorted) = <<>> THEN "done" ELSE "move"
             /\ UNCHANGED <<raised, output>>
  /\ UNCHANGED <<walk, files, dirs, dry_run, i, records, k, asserted, renamed, prior>>

\* Mutant: the test of dry_run is the wrong way round.
applies_inverted(dry) == dry

\* Mutant: the test of dry_run is missing.
applies_always(dry) == TRUE

\* Line 134.
applies(dry) == ~dry

\* Lines 130-136 for the next row.
MoveStep ==
  /\ pc = "move"
  /\ LET row == df[k]
         quoted == Contains(row.original_filename, "\"")
                     \/ Contains(row.new_filename, "\"")
         present == Exists(row.new_filename, files, dirs)
         acts == ~quoted /\ ~present /\ applies(dry_run)
         mk == MakedirsRaises(Dirname(row.new_filename), files)
         made == Makedirs(Dirname(row.new_filename), dirs)
         rn == RenameRaises(row.original_filename, row.new_filename, files, made)
         exc == IF quoted THEN "AssertionError (lines 130-131)"
                ELSE IF present THEN "AssertionError (line 133)"
                ELSE IF ~acts THEN "none"
                ELSE IF mk # "none" THEN mk
                ELSE rn
     IN /\ output' = IF quoted THEN output
                     ELSE Append(output, [kind |-> "print", text |-> <<MvLine(row)>>])
        /\ asserted' = IF quoted THEN asserted ELSE Append(asserted, row.new_filename)
        /\ dirs' = IF acts /\ mk = "none" THEN made ELSE dirs
        /\ renamed' = IF acts /\ mk = "none"
                        THEN Append(renamed, <<row.original_filename, row.new_filename>>)
                        ELSE renamed
        /\ files' = IF acts /\ mk = "none" /\ rn = "none"
                      THEN Rename(row.original_filename, row.new_filename, files)
                      ELSE files
        /\ raised' = exc
        /\ pc' = IF exc # "none" THEN "raised"
                 ELSE IF k = Len(df) THEN "done" ELSE "move"
  /\ k' = k + 1
  /\ UNCHANGED <<walk, dry_run, i, records, df, prior>>

\* main() once more, now with --nodry_run, on the disk as the first run left it.
Invoke ==
  /\ pc \in {"done", "raised"}
  /\ dry_run
  /\ prior' = Append(prior, [dry_run |-> dry_run, pc |-> pc, raised |-> raised,
                             output |-> output])
  /\ dry_run' = FALSE
  /\ pc' = "scan"
  /\ raised' = "none"
  /\ i' = 1
  /\ records' = <<>>
  /\ df' = <<>>
  /\ k' = 1
  /\ output' = <<>>
  /\ asserted' = <<>>
  /\ renamed' = <<>>
  /\ UNCHANGED <<walk, files, dirs>>

Next == ScanStep \/ Plan \/ MoveStep \/ Invoke

Spec == Init /\ [][Next]_vars

\* The same program on the pairs of NameWalks.
NameSpec == NameInit /\ [][Next]_vars

(***************************************************************************)
(* Vocabulary of the properties                                            *)
(***************************************************************************)

Range(s) == {s[j] : j \in 1..Len(s)}

IsPrefix(s, t) == Len(s) <= Len(t) /\ SubSeq(t, 1, Len(s)) = s

Last(s) == s[Len(s)]

\* No directory made, no file moved, nothing handed to os.rename.
DiskUntouched ==
  /\ files = InitFiles(walk)
  /\ dirs = InitDirs(walk)
  /\ renamed = <<>>

Printed == {e \in Range(output) : e.kind = "print"}

\* The records whose target differs from their own path and was on disk at
\* the start of the run.
Preexisting ==
  {j \in 1..Len(records) :
     /\ records[j].new_filename # records[j].original_filename
     /\ Exists(records[j].new_filename, InitFiles(walk), InitDirs(walk))}

\* The records that share their new_filename with another record.
Colliding ==
  {j \in 1..Len(records) :
     \E m \in 1..Len(records) :
       m # j /\ records[m].new_filename = records[j].new_filename}

ByNewThenOriginal(a, b) ==
  \/ StrLess(records[a].new_filename, records[b].new_filename)
  \/ /\ records[a].new_filename = records[b].new_filename
     /\ StrLess(records[a].original_filename, records[b].original_filename)

ByNewThenWalk(a, b) ==
  \/ StrLess(records[a].new_filename, records[b].new_filename)
  \/ /\ records[a].new_filename = records[b].new_filename
     /\ a < b

RowOfRecord(j) == CsvRow(records[j].original_filename)

\* The rows of the colliding records, by new_filename and then by
\* original_filename.
RowsByNewThenOriginal ==
  [p \in 1..Cardinality(Colliding) |->
     RowOfRecord(CHOOSE j \in Colliding :
                   Cardinality({m \in Colliding : ByNewThenOriginal(m, j)}) = p - 1)]

\* The rows of the colliding records, by new_filename and then by the place
\* of the file in the walk.
RowsByNewThenWalk ==
  [p \in 1..Cardinality(Colliding) |->
     RowOfRecord(CHOOSE j \in Colliding :
                   Cardinality({m \in Colliding : ByNewThenWalk(m, j)}) = p - 1)]

\* The run has returned after logging the pre-existing collisions, and has
\* printed nothing.
EndedOnPreexisting ==
  /\ output # <<>>
  /\ Last(output).kind = "Pre-existing collisions, stopping"
  /\ Len(Last(output).text) = Cardinality(Preexisting)
  /\ Range(Last(output).text) = {records[j].new_filename : j \in Preexisting}
  /\ Printed = {}

\* The run has returned after printing one listing, `rows`.
EndedOnListing(rows) ==
  /\ Len(output) >= 2
  /\ output[Len(output) - 1].kind = "Would-be new collisions, stopping."
  /\ Last(output) = [kind |-> "print", text |-> rows]
  /\ Cardinality(Printed) = 1

\* The files of the walk that the scan takes up, those on which process_mp3
\* meets an exception, and those that got a record.
IsMp3(file) == EndsWith(Lower(file.item), Mp3)

Fails(file) == ~file.readable \/ TrackRaises(file.f) # "none"

HasRecord(file) ==
  \E j \in 1..Len(records) : records[j].original_filename = PathOf(file)

\* Record a has an albumartist, record b has none, their other tags agree.
AlbumArtistPair(a, b) ==
  /\ records[a].f["albumartist"] # None
  /\ records[b].f["albumartist"] = None
  /\ records[b].f = [records[a].f EXCEPT !["albumartist"] = None]

\* The tokens the two templates are filled with.
ArtistToken(f) == normalize_name(f["artist"], UNKNOWN_ARTIST)

SortToken(f) ==
  normalize_name(IF f["artistsort"] = None THEN f["artist"] ELSE f["artistsort"],
                 UNKNOWN_ARTISTSORT)

AlbumToken(f) == normalize_name(f["album"], UNKNOWN_ALBUM)

YearToken(f) == normalize_name(Year(f), UNKNOWN_YEAR)

\* The n-th piece of a path string between slashes (the first is empty).
Segment(path, n) == Split(path, "/")[n]

SameEitherWay(f) ==
  AlbumToken(f) \o Dash \o YearToken(f) \o Dash \o TrackString(f) \o Dash \o ArtistToken(f)
    = ArtistToken(f) \o Dash \o YearToken(f) \o Dash \o AlbumToken(f) \o Dash \o TrackString(f)

\* The track token the tracknumber tag stands for: N of 'N' or 'N/M' in two
\* digits, UNKNOWN_TRACK when there is no tag or it is no such form.
ClaimedTrack(f) ==
  LET track == f["tracknumber"]
      track_split == Split(track, "/")
  IN IF track # None /\ Len(track_split) <= 2 /\ IsIntLiteral(track_split[1])
       THEN Format02(IntValue(track_split[1]))
       ELSE UNKNOWN_TRACK

\* Records a and b have the same tags, and neither file is at its target.
SameTagsPair(a, b) ==
  /\ a # b
  /\ records[a].f = records[b].f
  /\ records[a].name_changed
  /\ records[b].name_changed

SomeSameTagsPair == \E a, b \in 1..Len(records) : SameTagsPair(a, b)

(***************************************************************************)
(* C1.  If at least one record has a new_filename that is on disk and is   *)
(* not its own path, the run makes no directory and renames no file, in    *)
(* either mode: it never enters the move loop, prints nothing, and when it *)
(* returns it has logged the new_filename of exactly those records.        *)
(***************************************************************************)
C1_PreexistingAbortsUntouched ==
  Preexisting # {} =>
    /\ DiskUntouched
    /\ pc # "move"
    /\ asserted = <<>>
    /\ Printed = {}
    /\ pc = "done" => EndedOnPreexisting

C1_Witness ==
  /\ ~dry_run
  /\ pc = "done"
  /\ \E j \in 1..Len(records) : records[j].collision = "PREEXISTING FILE"
  /\ \E j \in 1..Len(records) : records[j].collision = "None"

(***************************************************************************)
(* C2.  As claimed: whenever two or more records share one new_filename,   *)
(* the run renames nothing and, when it returns, has printed exactly the   *)
(* rows of the records of the colliding groups.                            *)
(***************************************************************************)
C2_Original ==
  Colliding # {} =>
    /\ DiskUntouched
    /\ pc # "move"
    /\ pc = "done" =>
         \E rows \in {Last(output).text} :
           /\ EndedOnListing(rows)
           /\ Len(rows) = Cardinality(Colliding)
           /\ Range(rows) = {RowOfRecord(j) : j \in Colliding}

(***************************************************************************)
(* C2, amended.  Whenever two or more records share one new_filename, the  *)
(* run renames nothing in either mode.  When it returns: if no record has  *)
(* a pre-existing collision it has printed exactly one row per record of   *)
(* every colliding group and no other row; if some record has one, it has  *)
(* logged the pre-existing new_filenames instead and printed no row.       *)
(***************************************************************************)
C2_SameRunCollisionAborts ==
  Colliding # {} =>
    /\ DiskUntouched
    /\ pc # "move"
    /\ asserted = <<>>
    /\ pc = "done" =>
         IF Preexisting = {}
           THEN \E rows \in {Last(output).text} :
                  /\ EndedOnListing(rows)
                  /\ Len(rows) = Cardinality(Colliding)
                  /\ Range(rows) = {RowOfRecord(j) : j \in Colliding}
           ELSE EndedOnPreexisting

\* An apply run that ended on a listing of two colliding groups.
C2_Witness ==
  /\ ~dry_run
  /\ pc = "done"
  /\ Preexisting = {}
  /\ \E j, m \in Colliding : records[j].new_filename # records[m].new_filename

(***************************************************************************)
(* C3.  As claimed: every exception of a file's tag reading, a failure to  *)
(* open the file included, is caught and logged and the file left out of   *)
(* records; the scan goes on, and every other mp3 file gets its record.    *)
(***************************************************************************)
C3_FailSoft ==
  /\ pc = "raised" => i > Len(walk)
  /\ \A j \in 1..Len(walk) :
       (j < i /\ IsMp3(walk[j])) =>
         IF Fails(walk[j])
           THEN /\ ~HasRecord(walk[j])
                /\ [kind |-> "Failure processing file", text |-> <<PathOf(walk[j])>>]
                     \in Range(output)
           ELSE HasRecord(walk[j])

(***************************************************************************)
(* C4.  A dry run makes no directory and renames no file, whatever way it  *)
(* ends.                                                                   *)
(***************************************************************************)
C4_DryRunLeavesDisk == dry_run => DiskUntouched

\* A dry run that went through a move loop of two rows or more.
C4_Witness ==
  /\ dry_run
  /\ pc = "done"
  /\ Len(df) >= 2
  /\ Len(asserted) = Len(df)

(***************************************************************************)
(* C5.  As claimed: on the same files, the output of the apply run is the  *)
(* output of the dry run.                                                  *)
(***************************************************************************)
C5_Original ==
  (~dry_run /\ pc \in {"done", "raised"}) => output = prior[1].output

(***************************************************************************)
(* C5, amended.  On the same files, the output of the apply run is at      *)
(* every moment a prefix of the output of the dry run, and is the whole of *)
(* it when the apply run returns; an apply run that an exception ends (of  *)
(* os.makedirs, os.rename or line 133) may have printed fewer lines.       *)
(***************************************************************************)
C5_ApplyOutputPrefixOfDry ==
  ~dry_run =>
    /\ IsPrefix(output, prior[1].output)
    /\ pc = "done" => output = prior[1].output

C5_Witness ==
  /\ ~dry_run
  /\ pc = "done"
  /\ Len(renamed) >= 2
  /\ output = prior[1].output

(***************************************************************************)
(* C6.  A record whose new_filename is its original_filename is left out   *)
(* of the move loop in either mode: no mv line is printed for it, line 133 *)
(* is not evaluated for it, it is not handed to os.rename, and it is not   *)
(* marked as a pre-existing collision.                                     *)
(***************************************************************************)
C6_UnchangedRecordExcluded ==
  \A j \in 1..Len(records) :
    records[j].new_filename = records[j].original_filename =>
      /\ records[j].collision = "None"
      /\ [kind |-> "print", text |-> <<MvLine(records[j])>>] \notin Range(output)
      /\ records[j].new_filename \notin Range(asserted)
      /\ \A pair \in Range(renamed) :
           /\ pair[1] # records[j].original_filename
           /\ pair[2] # records[j].new_filename
      /\ pc = "move" => records[j] \notin Range(df)

\* An apply run that moved another file and left the unchanged one alone.
C6_Witness ==
  /\ ~dry_run
  /\ pc = "done"
  /\ renamed # <<>>
  /\ \E j \in 1..Len(records) :
       records[j].new_filename = records[j].original_filename

(***************************************************************************)
(* C7.  As claimed: of two files whose tags differ only in that one has an *)
(* albumartist and the other has none, the target paths differ.            *)
(***************************************************************************)
C7_Original ==
  \A a, b \in 1..Len(records) :
    AlbumArtistPair(a, b) => records[a].new_filename # records[b].new_filename

(***************************************************************************)
(* C7, amended.  The second path segment is the albumartist when there is  *)
(* one and the sort artist when there is none, whatever the other tags.    *)
(* The two target paths of such a pair differ, except when the albumartist *)
(* token equals the sort-artist token and the file name reads the same     *)
(* with album and artist exchanged ("album - year - track - artist" equals *)
(* "artist - year - album - track", as when artist, album and track token  *)
(* are the same string): then they are the same path.                      *)
(***************************************************************************)
C7_TemplateByAlbumArtist ==
  \A a, b \in 1..Len(records) :
    AlbumArtistPair(a, b) =>
      /\ Segment(records[a].new_filename, 4)
           = normalize_name(records[a].f["albumartist"], None)
      /\ Segment(records[b].new_filename, 4) = SortToken(records[b].f)
      /\ records[a].new_filename = records[b].new_filename
           <=> /\ normalize_name(records[a].f["albumartist"], None) = SortToken(records[b].f)
               /\ SameEitherWay(records[b].f)

\* Both files of a pair moved, to different paths.
C7_Witness ==
  /\ ~dry_run
  /\ pc = "done"
  /\ Len(renamed) = 2
  /\ \E a, b \in 1..Len(records) :
       AlbumArtistPair(a, b) /\ records[a].new_filename # records[b].new_filename

(***************************************************************************)
(* C8.  As claimed: every file EasyID3 opens yields a record, and the      *)
(* track token of its target path is N in two digits for a tracknumber     *)
(* 'N' or 'N/M', and UNKNOWN_TRACK for one that is absent or does not      *)
(* parse.                                                                  *)
(***************************************************************************)
C8_TrackToken ==
  \A j \in 1..Len(walk) :
    (j < i /\ IsMp3(walk[j]) /\ walk[j].readable) =>
      \E m \in 1..Len(records) :
        /\ records[m].original_filename = PathOf(walk[j])
        /\ records[m].new_filename
             = Join(OUTPUT_MP3_BASE_DIR, NameWith(walk[j].f, ClaimedTrack(walk[j].f)))

C10_NeverFailsNeverClobbers ==
  ~dry_run =>
    /\ raised # "AssertionError (line 133)"
    /\ raised \notin {"FileNotFoundError", "IsADirectoryError"}
    /\ Cardinality(files) = Cardinality(InitFiles(walk))
    /\ \A x \in files :
         IF \E pair \in Range(renamed) : pair[1] = x.id
           THEN \E pair \in Range(renamed) : pair[1] = x.id /\ x.at = Canon(pair[2])
           ELSE x.at = Canon(x.id)

====
